---- MODULE Spec2Model ----
(***************************************************************************)
(* Model of download_nvidia.py: the manifest walk (fetch_action), the      *)
(* artifact resolver (parse_artifact), the fetcher (fetch_file) and the    *)
(* archive ingestion (post_action, fix_permissions, flatten_tree), driven  *)
(* by main's --download-only branch.                                       *)
(*                                                                         *)
(* Strings are TLA+ strings handled character by character (Len, SubSeq,   *)
(* \o), so that split, basename, commonprefix, path joins and substring    *)
(* tests are computed the way Python computes them.                        *)
(***************************************************************************)
EXTENDS Naturals, Integers, Sequences, FiniteSets, TLC

(***************************************************************************)
(* Bounds of the model.                                                    *)
(***************************************************************************)
\* Most component entries of a manifest drawn in Init.
MaxComponents == 2
\* Most files present in the file system before the first run.
MaxPreexisting == 1
\* Most copies of one artifact present before the first direct call of
\* parse_artifact in the resolver specification.
MaxCached == 2
\* Most direct calls of parse_artifact in the resolver specification.
MaxCalls == 2

(***************************************************************************)
(* Python values.                                                          *)
(***************************************************************************)
\* Python's None, as filter value, binTag or tag argument.
None == "<None>"

\* download.status of a successful response (fetch_file).
HTTP_OK == 200
\* What urlopen can do: return a response (status 200, or another status of
\* the 2xx class), raise HTTPError for a status outside that class, or raise
\* URLError without any response (status 0 here).
Responses == {[raised |-> FALSE, status |-> HTTP_OK],
              [raised |-> FALSE, status |-> 204],
              [raised |-> TRUE, status |-> 404],
              [raised |-> TRUE, status |-> 0]}

Char(s, i) == SubSeq(s, i, i)

StartsWith(s, p) == Len(p) <= Len(s) /\ SubSeq(s, 1, Len(p)) = p

EndsWith(s, p) == Len(p) <= Len(s) /\ SubSeq(s, Len(s) - Len(p) + 1, Len(s)) = p

\* Python's `sub in s` on strings; also re.search of a literal pattern.
Contains(s, sub) ==
    \E i \in 1..(Len(s) - Len(sub) + 1) : SubSeq(s, i, i + Len(sub) - 1) = sub

\* Index of the first occurrence of the character d in s, 0 when there is none.
FirstIndex(s, d) ==
    LET I == {i \in 1..Len(s) : Char(s, i) = d}
    IN  IF I = {} THEN 0 ELSE CHOOSE i \in I : \A j \in I : i <= j

\* Index of the last occurrence of the character d in s, 0 when there is none.
LastIndex(s, d) ==
    LET I == {i \in 1..Len(s) : Char(s, i) = d}
    IN  IF I = {} THEN 0 ELSE CHOOSE i \in I : \A j \in I : i >= j

\* str.split(d) for a one-character delimiter d.
RECURSIVE Split(_, _)
Split(s, d) ==
    LET i == FirstIndex(s, d)
    IN  IF i = 0 THEN <<s>>
        ELSE <<SubSeq(s, 1, i - 1)>> \o Split(SubSeq(s, i + 1, Len(s)), d)

\* os.path.basename: what follows the last "/".
Basename(p) == SubSeq(p, LastIndex(p, "/") + 1, Len(p))

\* os.path.join(a, b) on POSIX for two components.
Join(a, b) ==
    IF StartsWith(b, "/") THEN b
    ELSE IF a = "" \/ EndsWith(a, "/") THEN a \o b
    ELSE a \o "/" \o b

\* os.path.commonprefix: the longest common leading string, character by
\* character (not path component by path component); "" for an empty list.
CommonPrefix(names) ==
    IF Len(names) = 0 THEN ""
    ELSE LET K == {k \in 0..Len(names[1]) :
                     \A n \in 1..Len(names) :
                         /\ k <= Len(names[n])
                         /\ SubSeq(names[n], 1, k) = SubSeq(names[1], 1, k)}
             m == CHOOSE k \in K : \A j \in K : k >= j
         IN  SubSeq(names[1], 1, m)

(***************************************************************************)
(* JSON values as json.loads returns them: str, list and (ordered) dict.   *)
(***************************************************************************)
JStr(s) == [t |-> "str", s |-> s]
JList(e) == [t |-> "list", elems |-> e]
JDict(items) == [t |-> "dict", items |-> items]
KV(k, v) == [k |-> k, v |-> v]

\* d.keys(), in insertion order.
Keys(d) == [i \in 1..Len(d.items) |-> d.items[i].k]

\* d[k]
Get(d, k) == d.items[CHOOSE i \in 1..Len(d.items) : d.items[i].k = k].v

\* Python's `k in v`: key of a dict, element of a list, substring of a str.
In(k, v) ==
    CASE v.t = "dict" -> \E i \in 1..Len(v.items) : v.items[i].k = k
      [] v.t = "list" -> \E i \in 1..Len(v.elems) : v.elems[i] = k
      [] v.t = "str"  -> Contains(v.s, k)

(***************************************************************************)
(* Program constants and the environment of one run.                       *)
(***************************************************************************)
DOMAIN_URL == "https://developer.download.nvidia.com"

\* args.product
Product == "cuda"

\* main: parent = f"{DOMAIN}/compute/{args.product}/redist/"
Parent == DOMAIN_URL \o "/compute/" \o Product \o "/redist/"

\* os.getcwd()
CWD == "/w"

\* args.output
OutputDir == "out"

(***************************************************************************)
(* The manifests of the model: top-level entries in the shape of NVIDIA's  *)
(* redistrib_<label>.json.                                                 *)
(***************************************************************************)
Flat(rel) == JDict(<<KV("relative_path", JStr(rel))>>)

EntryReleaseDate == KV("release_date", JStr("2024-03-05"))

EntryCudart ==
    KV("cuda_cudart", JDict(<<
        KV("name", JStr("CUDA Runtime")),
        KV("version", JStr("12.4")),
        KV("linux-x86_64",
           Flat("cuda_cudart/linux-x86_64/cuda_cudart-linux-x86_64-12.4-archive.tar.xz")),
        KV("windows-x86_64",
           Flat("cuda_cudart/windows-x86_64/cuda_cudart-windows-x86_64-12.4-archive.zip")),
        KV("source", Flat("cuda_cudart/source/cuda_cudart-12.4.tar.gz")) >>))

EntryCudnn ==
    KV("cudnn", JDict(<<
        KV("name", JStr("NVIDIA cuDNN")),
        KV("version", JStr("8.9.7")),
        KV("cuda_variant", JList(<<"11", "12">>)),
        KV("linux-x86_64", JDict(<<
            KV("cuda11",
               Flat("cudnn/linux-x86_64/cudnn-linux-x86_64-8.9.7_cuda11-archive.tar.xz")),
            KV("cuda12",
               Flat("cudnn/linux-x86_64/cudnn-linux-x86_64-8.9.7_cuda12-archive.tar.xz")) >>)),
        KV("source", Flat("cudnn/source/cudnn-8.9.7-src.tgz")) >>))

\* An entry without the "name" marker that nevertheless offers a platform.
EntryLegacy ==
    KV("legacy", JDict(<<
        KV("version", JStr("1.0")),
        KV("linux-x86_64",
           Flat("legacy/linux-x86_64/legacy-linux-x86_64-1.0-archive.tar.xz")) >>))

\* The component entries, in the order the document lists them.
Catalogue == <<EntryCudart, EntryCudnn, EntryLegacy>>

\* The subsequences of q with at most n elements.
RECURSIVE SubSeqsUpTo(_, _)
SubSeqsUpTo(q, n) ==
    IF q = <<>> \/ n = 0 THEN {<<>>}
    ELSE SubSeqsUpTo(Tail(q), n)
         \cup {<<Head(q)>> \o t : t \in SubSeqsUpTo(Tail(q), n - 1)}

\* The manifests: the release date, then up to MaxComponents component
\* entries.
Manifests ==
    {JDict(<<EntryReleaseDate>> \o q) : q \in SubSeqsUpTo(Catalogue, MaxComponents) \ {<<>>}}

(***************************************************************************)
(* The file system: normalised absolute path -> [kind, w], w the owner     *)
(* write bit.  A directory also exists when something lies beneath it.     *)
(***************************************************************************)
\* Runs of "/" count as one "/".
RECURSIVE Collapse(_)
Collapse(s) ==
    LET I == {i \in 1..(Len(s) - 1) : SubSeq(s, i, i + 1) = "//"}
    IN  IF I = {} THEN s
        ELSE LET i == CHOOSE i \in I : \A j \in I : i >= j
             IN  Collapse(SubSeq(s, 1, i - 1)) \o SubSeq(s, i + 1, Len(s))

StripSlash(s) == IF Len(s) > 1 /\ EndsWith(s, "/") THEN SubSeq(s, 1, Len(s) - 1) ELSE s

\* The path the operating system resolves p to, relative paths against CWD.
Norm(p) == StripSlash(Collapse(IF StartsWith(p, "/") THEN p ELSE CWD \o "/" \o p))

\* The entries of f strictly below the normalised path n.
Below(f, n) ==
    LET prefix == n \o "/"
    IN  {q \in DOMAIN f : StartsWith(q, prefix)}

Beneath(f, p) == Below(f, Norm(p))

\* os.path.exists
Exists(f, p) ==
    /\ p # ""
    /\ DOMAIN f # {}
    /\ LET n == Norm(p) IN n \in DOMAIN f \/ Below(f, n) # {}

\* os.path.isdir
IsDir(f, p) ==
    /\ p # ""
    /\ LET n == Norm(p)
       IN  (n \in DOMAIN f /\ f[n].kind = "dir") \/ Below(f, n) # {}

\* os.path.isfile
IsFile(f, p) == p # "" /\ LET n == Norm(p) IN n \in DOMAIN f /\ f[n].kind = "file"

RegularFile == [kind |-> "file", w |-> TRUE]
Directory == [kind |-> "dir", w |-> TRUE]

\* f with path p (already normalised) bound to entry e.
Put(f, p, e) == [q \in DOMAIN f \cup {p} |-> IF q = p THEN e ELSE f[q]]

Remove(f, S) == [q \in DOMAIN f \ S |-> f[q]]

(***************************************************************************)
(* State.                                                                  *)
(***************************************************************************)
VARIABLES
    mode,               \* "pipeline" (main) or "resolver" (direct calls)
    manifest,           \* json.loads(manifest_response.read())
    component_filter,   \* args.component
    platform_filter,    \* f"{args.os}-{args.arch}"
    cuda_filter,        \* args.variant
    pc,                 \* "load", "walk", "post", "ingest", "exited"
    ci, pi, vi,         \* position of fetch_action's three nested loops
    ARCHIVES,           \* the module-level dict: <<[k |-> platform, v |-> paths]>>
    ai,                 \* number of archives post_action has taken up
    fs,                 \* the file system
    exit_status,        \* argument of sys.exit, -1 while running
    resolved,           \* history: one record per call of parse_artifact
    walked,             \* history: components announced at line 204
    ingested            \* history: one record per archive post_action took up

vars == <<mode, manifest, component_filter, platform_filter, cuda_filter,
          pc, ci, pi, vi, ARCHIVES, ai, fs, exit_status, resolved, walked, ingested>>

inputs == <<mode, manifest, component_filter, platform_filter, cuda_filter>>

(***************************************************************************)
(* ARCHIVES                                                                *)
(***************************************************************************)
HasKey(A, k) == \E i \in 1..Len(A) : A[i].k = k

\* if not platform in ARCHIVES: ARCHIVES[platform] = []
SetDefault(A, k) == IF HasKey(A, k) THEN A ELSE Append(A, KV(k, <<>>))

\* ARCHIVES[platform]
ArchivesOf(A, k) == A[CHOOSE i \in 1..Len(A) : A[i].k = k].v

\* ARCHIVES[platform].append(path)
AppendArchive(A, k, path) ==
    [i \in 1..Len(A) |-> IF A[i].k = k THEN KV(k, Append(A[i].v, path)) ELSE A[i]]

(***************************************************************************)
(* fetch_file and parse_artifact                                           *)
(***************************************************************************)
\* A fetch that stores the download in a directory of its own instead of the
\* working directory: the fault C8 has to detect.
FetchWriteElsewhere(f, filename) ==
    Put(f, Norm(Join("downloads", filename)), RegularFile)

\* open(filename, "wb") ... file.write(download.read())
FetchWrite(f, filename) == Put(f, Norm(filename), RegularFile)

\* fetch_file(full_path, filename) under response r: the file system after it.
fetch_file(f, filename, r) ==
    IF r.status # HTTP_OK THEN f ELSE FetchWrite(f, filename)

\* `if variant:` -- None and the empty string are false.
Truthy(x) == x # None /\ x # ""

\* manifest[component][platform][variant]["relative_path"], or without variant
RelativePath(m, component, platform, variant) ==
    IF Truthy(variant)
    THEN Get(Get(Get(Get(m, component), platform), variant), "relative_path").s
    ELSE Get(Get(Get(m, component), platform), "relative_path").s

\* pwd = os.path.join(os.getcwd(), component, platform)
Pwd(component, platform) == Join(Join(CWD, component), platform)

\* What os.path.exists answers for each path parse_artifact asks about; rel
\* (the manifest's relative_path itself) is never asked and is history only.
Probe(f, parent, rel, filename, pwd) ==
    [filename    |-> Exists(f, filename),
     full_path   |-> Exists(f, parent \o rel),
     parent_cat  |-> Exists(f, parent \o filename),
     pwd_cat     |-> Exists(f, pwd \o filename),
     parent_join |-> Exists(f, Join(parent, filename)),
     pwd_join    |-> Exists(f, Join(pwd, filename)),
     rel         |-> Exists(f, rel)]

\* The condition of the first branch, lines 164-170.
MustFetch(ex, retrieve) ==
    /\ retrieve
    /\ ~ex.filename
    /\ ~ex.full_path
    /\ ~ex.parent_cat
    /\ ~ex.pwd_cat

\* The elif chain, lines 174-192: the path appended to ARCHIVES[platform],
\* None in the else branch.
FoundPath(ex, parent, full_path, filename, pwd) ==
    IF ex.filename THEN filename
    ELSE IF ex.full_path THEN full_path
    ELSE IF ex.parent_join THEN Join(parent, filename)
    ELSE IF ex.pwd_join THEN Join(pwd, filename)
    ELSE None

\* Lines 155-162 of parse_artifact and the answers of os.path.exists it
\* branches on.
Locate(f, parent, m, component, platform, variant) ==
    LET rel       == RelativePath(m, component, platform, variant)
        full_path == parent \o rel
        filename  == Basename(full_path)
        pwd       == Pwd(component, platform)
    IN  [component |-> component, platform |-> platform, variant |-> variant,
         parent |-> parent, full_path |-> full_path, filename |-> filename,
         pwd |-> pwd, ex |-> Probe(f, parent, rel, filename, pwd)]

\* parse_artifact(parent, manifest, component, platform, retrieve, variant),
\* lines 164-192, at the paths `at` == Locate(...), when urlopen, if called,
\* answers r.  The result: the file system and ARCHIVES after the call,
\* whether an exception left it, and the history record of the call.
parse_artifact(f, A, at, retrieve, r) ==
    LET fetch  == MustFetch(at.ex, retrieve)
        raises == fetch /\ r.raised
        path   == IF fetch THEN at.filename
                  ELSE FoundPath(at.ex, at.parent, at.full_path, at.filename, at.pwd)
        f2     == IF fetch /\ ~raises THEN fetch_file(f, at.filename, r) ELSE f
        A2     == IF raises \/ path = None THEN A
                  ELSE AppendArchive(A, at.platform, path)
    IN  [fs       |-> f2,
         ARCHIVES |-> A2,
         raised   |-> raises,
         rec      |-> [component |-> at.component, platform |-> at.platform,
                       variant |-> at.variant, retrieve |-> retrieve,
                       filename |-> at.filename,
                       pre |-> at.ex,
                       fetched |-> fetch,
                       status |-> IF fetch THEN r.status ELSE 0,
                       raised |-> raises,
                       wrote |-> f2 # f,
                       appended |-> A2 # A,
                       path |-> IF raises THEN None ELSE path]]

(***************************************************************************)
(* Initial states.                                                         *)
(***************************************************************************)
\* The set of a dict's keys.
KeySet(d) == {d.items[i].k : i \in 1..Len(d.items)}

\* The (component, platform, variant) selectors a manifest offers: every
\* dict-valued key of a dict-valued top-level entry, flat or variant-nested.
SelectorsAt(m, c, p) ==
    LET e == Get(Get(m, c), p)
    IN  IF In("relative_path", e) THEN {<<c, p, None>>}
        ELSE {<<c, p, v>> : v \in KeySet(e)}

SelectorsOf(m, c) ==
    UNION {SelectorsAt(m, c, p) : p \in {p \in KeySet(Get(m, c)) : Get(Get(m, c), p).t = "dict"}}

Artifacts(m) ==
    UNION {SelectorsOf(m, c) : c \in {c \in KeySet(m) : Get(m, c).t = "dict"}}

\* The places parse_artifact looks at for one selector, as the file system
\* names them.
CandidatePaths(m, t) ==
    LET rel      == RelativePath(m, t[1], t[2], t[3])
        filename == Basename(Parent \o rel)
        pwd      == Pwd(t[1], t[2])
    IN  {Norm(filename), Norm(Parent \o rel), Norm(rel), Norm(Join(Parent, filename)),
         Norm(pwd \o filename), Norm(Join(pwd, filename))}

\* File systems holding at most n archives left by earlier downloads.
RECURSIVE SubsetsUpTo(_, _)
SubsetsUpTo(S, n) ==
    IF n = 0 THEN {{}}
    ELSE LET smaller == SubsetsUpTo(S, n - 1)
         IN  smaller \cup {T \cup {x} : T \in smaller, x \in S}

\* File systems in which earlier downloads left at most n copies of one
\* artifact of the manifest.
InitialFileSystems(m, n) ==
    {[q \in S |-> RegularFile] :
        S \in UNION {SubsetsUpTo(CandidatePaths(m, t), n) : t \in Artifacts(m)}}

InitCommon ==
    /\ pc = "load"
    /\ ci = 1 /\ pi = 0 /\ vi = 0
    /\ ARCHIVES = <<>>
    /\ ai = 0
    /\ exit_status = -1
    /\ resolved = <<>>
    /\ walked = <<>>
    /\ ingested = <<>>

\* main with --download-only: the arguments and what lies in the working
\* directory.
Init ==
    /\ mode = "pipeline"
    /\ manifest \in Manifests
    /\ component_filter \in {None, "cudnn"}
    /\ \E os \in {"linux", "windows"}, arch \in {"x86_64"} :
           platform_filter = os \o "-" \o arch
    /\ cuda_filter \in {None, "cuda12"}
    /\ fs \in InitialFileSystems(manifest, MaxPreexisting)
    /\ InitCommon

(***************************************************************************)
(* main, lines 564-588: loading the manifest.                              *)
(***************************************************************************)
\* sys.exit(status)
Exit(status) == pc' = "exited" /\ exit_status' = status

\* urlopen(manifest_uri) and json.loads succeed.
LoadManifest ==
    /\ mode = "pipeline" /\ pc = "load"
    /\ pc' = "walk"
    /\ UNCHANGED <<inputs, ci, pi, vi, ARCHIVES, ai, fs, exit_status,
                   resolved, walked, ingested>>

\* urlopen raises or the body is not JSON: caught at line 586, sys.exit(1).
LoadManifestFails ==
    /\ mode = "pipeline" /\ pc = "load"
    /\ Exit(1)
    /\ UNCHANGED <<inputs, ci, pi, vi, ARCHIVES, ai, fs, resolved, walked, ingested>>

(***************************************************************************)
(* fetch_action, lines 194-239: one action per loop iteration.             *)
(***************************************************************************)
\* `not "name" in manifest[component]` is false
HasMarker(entry) == In("name", entry)

\* A walk that ignores --component: the fault C10 has to detect.
EveryComponentSelected(component, filter) == TRUE

\* `component_filter is not None and component != component_filter` is false
ComponentSelected(component, filter) == ~(filter # None /\ component # filter)

\* `"variant" in platform`
ReservedKey(platform) == Contains(platform, "variant")

\* The platform filter without the exception for source: the fault C4 has
\* to detect.
PlatformSkippedSourceToo(platform, filter) == filter # None /\ platform # filter

\* the condition of lines 214-218
PlatformSkipped(platform, filter) ==
    filter # None /\ platform # filter /\ platform # "source"

\* A variant loop that ignores --variant: the fault C5 has to detect.
NoVariantSkipped(variant, filter) == FALSE

\* the condition of line 224
VariantSkipped(variant, filter) == filter # None /\ variant # filter

Component == Keys(manifest)[ci]
Entry == Get(manifest, Component)
Platform == Keys(Entry)[pi]
PlatformEntry == Get(Entry, Platform)
Variant == Keys(PlatformEntry)[vi]

AtComponent == mode = "pipeline" /\ pc = "walk" /\ pi = 0 /\ ci <= Len(manifest.items)
AtPlatform ==
    mode = "pipeline" /\ pc = "walk" /\ pi >= 1 /\ vi = 0 /\ pi <= Len(Entry.items)
AtVariant ==
    /\ mode = "pipeline" /\ pc = "walk" /\ pi >= 1 /\ vi >= 1
    /\ vi <= Len(PlatformEntry.items)

\* lines 198-202: continue
SkipComponent ==
    /\ AtComponent
    /\ ~HasMarker(Entry) \/ ~ComponentSelected(Component, component_filter)
    /\ ci' = ci + 1
    /\ UNCHANGED <<inputs, pc, pi, vi, ARCHIVES, ai, fs, exit_status,
                   resolved, walked, ingested>>

\* line 204 and the start of the platform loop
EnterComponent ==
    /\ AtComponent
    /\ HasMarker(Entry) /\ ComponentSelected(Component, component_filter)
    /\ walked' = Append(walked, Component)
    /\ pi' = 1
    /\ UNCHANGED <<inputs, pc, ci, vi, ARCHIVES, ai, fs, exit_status,
                   resolved, ingested>>

\* lines 207-208: continue, before ARCHIVES is touched
SkipReservedKey ==
    /\ AtPlatform
    /\ ReservedKey(Platform)
    /\ pi' = pi + 1
    /\ UNCHANGED <<inputs, pc, ci, vi, ARCHIVES, ai, fs, exit_status,
                   resolved, walked, ingested>>

\* lines 210-213 for a str value (name, version): only the ARCHIVES key
SkipStringValue ==
    /\ AtPlatform
    /\ ~ReservedKey(Platform)
    /\ PlatformEntry.t = "str"
    /\ ARCHIVES' = SetDefault(ARCHIVES, Platform)
    /\ pi' = pi + 1
    /\ UNCHANGED <<inputs, pc, ci, vi, ai, fs, exit_status, resolved, walked, ingested>>

\* lines 214-220: "Skipping platform"
SkipPlatform ==
    /\ AtPlatform
    /\ ~ReservedKey(Platform)
    /\ PlatformEntry.t # "str"
    /\ PlatformSkipped(Platform, platform_filter)
    /\ ARCHIVES' = SetDefault(ARCHIVES, Platform)
    /\ pi' = pi + 1
    /\ UNCHANGED <<inputs, pc, ci, vi, ai, fs, exit_status, resolved, walked, ingested>>

\* The call of parse_artifact at the current position, urlopen answering r;
\* an exception leaves fetch_action and is caught at line 586.
Resolve(at, r) ==
    LET out == parse_artifact(fs, SetDefault(ARCHIVES, Platform), at, TRUE, r)
    IN  /\ fs' = out.fs
        /\ ARCHIVES' = out.ARCHIVES
        /\ resolved' = Append(resolved, out.rec)
        /\ IF out.raised
           THEN Exit(1) /\ UNCHANGED <<pi, vi>>
           ELSE /\ UNCHANGED <<pc, exit_status>>
                /\ IF at.variant = None
                   THEN pi' = pi + 1 /\ vi' = vi
                   ELSE vi' = vi + 1 /\ pi' = pi

\* A walk that applies --variant to flat entries too, passing them over when
\* the filter is set: the fault C12 has to detect.
ResolveFlatUnlessVariant ==
    /\ AtPlatform
    /\ ~ReservedKey(Platform)
    /\ PlatformEntry.t # "str"
    /\ ~PlatformSkipped(Platform, platform_filter)
    /\ In("relative_path", PlatformEntry)
    /\ IF cuda_filter # None
       THEN /\ ARCHIVES' = SetDefault(ARCHIVES, Platform)
            /\ pi' = pi + 1
            /\ UNCHANGED <<pc, vi, fs, exit_status, resolved>>
       ELSE LET at == Locate(fs, Parent, manifest, Component, Platform, None)
            IN  \E r \in Responses : Resolve(at, r)
    /\ UNCHANGED <<inputs, ci, ai, walked, ingested>>

\* lines 236-239: a flat platform entry
ResolveFlat ==
    /\ AtPlatform
    /\ ~ReservedKey(Platform)
    /\ PlatformEntry.t # "str"
    /\ ~PlatformSkipped(Platform, platform_filter)
    /\ In("relative_path", PlatformEntry)
    /\ LET at == Locate(fs, Parent, manifest, Component, Platform, None)
       IN  \E r \in Responses : Resolve(at, r)
    /\ UNCHANGED <<inputs, ci, ai, walked, ingested>>

\* lines 222-223: a variant-nested platform entry, start of the variant loop
EnterVariants ==
    /\ AtPlatform
    /\ ~ReservedKey(Platform)
    /\ PlatformEntry.t # "str"
    /\ ~PlatformSkipped(Platform, platform_filter)
    /\ ~In("relative_path", PlatformEntry)
    /\ ARCHIVES' = SetDefault(ARCHIVES, Platform)
    /\ vi' = 1
    /\ UNCHANGED <<inputs, pc, ci, pi, ai, fs, exit_status, resolved, walked, ingested>>

\* lines 224-226: "Skipping variant"
SkipVariant ==
    /\ AtVariant
    /\ VariantSkipped(Variant, cuda_filter)
    /\ vi' = vi + 1
    /\ UNCHANGED <<inputs, pc, ci, pi, ARCHIVES, ai, fs, exit_status,
                   resolved, walked, ingested>>

\* lines 228-235
ResolveVariant ==
    /\ AtVariant
    /\ ~VariantSkipped(Variant, cuda_filter)
    /\ LET at == Locate(fs, Parent, manifest, Component, Platform, Variant)
       IN  \E r \in Responses : Resolve(at, r)
    /\ UNCHANGED <<inputs, ci, ai, walked, ingested>>

\* the variant loop ends
VariantsDone ==
    /\ mode = "pipeline" /\ pc = "walk" /\ pi >= 1 /\ vi >= 1
    /\ vi > Len(PlatformEntry.items)
    /\ vi' = 0 /\ pi' = pi + 1
    /\ UNCHANGED <<inputs, pc, ci, ARCHIVES, ai, fs, exit_status,
                   resolved, walked, ingested>>

\* the platform loop ends
PlatformsDone ==
    /\ mode = "pipeline" /\ pc = "walk" /\ pi >= 1 /\ vi = 0
    /\ pi > Len(Entry.items)
    /\ pi' = 0 /\ ci' = ci + 1
    /\ UNCHANGED <<inputs, pc, vi, ARCHIVES, ai, fs, exit_status,
                   resolved, walked, ingested>>

\* the component loop ends: fetch_action returns, main calls post_action
WalkDone ==
    /\ mode = "pipeline" /\ pc = "walk" /\ pi = 0 /\ ci > Len(manifest.items)
    /\ pc' = "post"
    /\ UNCHANGED <<inputs, ci, pi, vi, ARCHIVES, ai, fs, exit_status,
                   resolved, walked, ingested>>

Walk ==
    \/ SkipComponent \/ EnterComponent
    \/ SkipReservedKey \/ SkipStringValue \/ SkipPlatform
    \/ ResolveFlat \/ EnterVariants
    \/ SkipVariant \/ ResolveVariant
    \/ VariantsDone \/ PlatformsDone \/ WalkDone

(***************************************************************************)
(* post_action, fix_permissions, flatten_tree: lines 130-145 and 241-292.  *)
(***************************************************************************)
\* What an archive can hold: its members in archive order.  Tree has one
\* top-level directory; Split has two whose names share a partial prefix;
\* Loose has members with no common prefix.
LayoutTree ==
    [id |-> "tree",
     members |-> << [name |-> "pkg", kind |-> "dir", w |-> TRUE],
                    [name |-> "pkg/lib", kind |-> "dir", w |-> TRUE],
                    [name |-> "pkg/lib/a.so", kind |-> "file", w |-> FALSE] >>]

LayoutSplit ==
    [id |-> "split",
     members |-> << [name |-> "lib", kind |-> "dir", w |-> TRUE],
                    [name |-> "lib/a.so", kind |-> "file", w |-> FALSE],
                    [name |-> "lib64", kind |-> "dir", w |-> TRUE],
                    [name |-> "lib64/b.so", kind |-> "file", w |-> FALSE] >>]

LayoutLoose ==
    [id |-> "loose",
     members |-> << [name |-> "a.h", kind |-> "file", w |-> FALSE],
                    [name |-> "b.h", kind |-> "file", w |-> TRUE] >>]

Layouts == {LayoutTree, LayoutSplit, LayoutLoose}

\* tarball.getnames(): member names as stored.
TarNames(layout) ==
    [i \in 1..Len(layout.members) |-> layout.members[i].name]

\* zippy.namelist(): a directory member's name ends with "/".
ZipNames(layout) ==
    [i \in 1..Len(layout.members) |->
        IF layout.members[i].kind = "dir" THEN layout.members[i].name \o "/"
        ELSE layout.members[i].name]

\* tarball.extractall() / zippy.extractall() into the working directory.  A
\* tar member keeps its mode bits; zipfile creates files with the default mode.
RECURSIVE ExtractAll(_, _, _)
ExtractAll(f, members, keepMode) ==
    IF members = <<>> THEN f
    ELSE LET e == Head(members)
         IN  ExtractAll(Put(f, Norm(e.name),
                            [kind |-> e.kind, w |-> IF keepMode THEN e.w ELSE TRUE]),
                        Tail(members), keepMode)

\* fix_permissions(directory): os.walk yields nothing unless directory is one.
fix_permissions(f, directory) ==
    IF ~IsDir(f, directory) THEN f
    ELSE [q \in DOMAIN f |->
            IF q \in Beneath(f, directory) /\ f[q].kind = "file"
            THEN [f[q] EXCEPT !.w = TRUE] ELSE f[q]]

\* The destination of flatten_tree: dest, plus tag when `if tag:` holds.
FlattenDest(dest, tag) == IF Truthy(tag) THEN Join(dest, tag) ELSE dest

\* shutil.copytree(src, dest, dirs_exist_ok=1) raises unless src is a directory.
CopytreeRaises(f, src) == ~IsDir(f, src)

\* shutil.copytree(src, dest, symlinks=1, dirs_exist_ok=1) then shutil.rmtree(src)
flatten_tree(f, src, dest, tag) ==
    LET d      == Norm(FlattenDest(dest, tag))
        s      == Norm(src)
        moved  == Beneath(f, src)
        target(q) == d \o SubSeq(q, Len(s) + 1, Len(q))
        copied == [q \in DOMAIN f \cup {d} \cup {target(x) : x \in moved} |->
                     IF \E x \in moved : target(x) = q
                     THEN f[CHOOSE x \in moved : target(x) = q]
                     ELSE IF q = d THEN Directory ELSE f[q]]
    IN  Remove(copied, moved \cup {s})

\* binTag = archive.split("-")[3].split("_")[1], None when that raises
BinTag(archive) ==
    LET a == Split(archive, "-")
    IN  IF Len(a) < 4 THEN None
        ELSE LET b == Split(a[4], "_")
             IN  IF Len(b) < 2 THEN None ELSE b[2]

\* re.search(r"\.tar\.", archive) and re.search(r"\.zip", archive)
IsTar(archive) == Contains(archive, ".tar.")
IsZip(archive) == ~IsTar(archive) /\ Contains(archive, ".zip")

\* The archives visited with the platforms in reverse order: the fault C6
\* has to detect.
PendingArchivesReversed(A) ==
    LET RECURSIVE Cat(_)
        Cat(i) == IF i < 1 THEN <<>>
                  ELSE [j \in 1..Len(A[i].v) |-> [platform |-> A[i].k, archive |-> A[i].v[j]]]
                       \o Cat(i - 1)
    IN  Cat(Len(A))

\* The two nested loops of lines 249-250 visit the archives in this order.
PendingArchives(A) ==
    LET RECURSIVE Cat(_)
        Cat(i) == IF i > Len(A) THEN <<>>
                  ELSE [j \in 1..Len(A[i].v) |-> [platform |-> A[i].k, archive |-> A[i].v[j]]]
                       \o Cat(i + 1)
    IN  Cat(1)

\* lines 242-243: nothing was walked
PostNothing ==
    /\ mode = "pipeline" /\ pc = "post"
    /\ Len(ARCHIVES) = 0
    /\ Exit(0)
    /\ UNCHANGED <<inputs, ci, pi, vi, ARCHIVES, ai, fs, resolved, walked, ingested>>

\* lines 245-247
PostBegin ==
    /\ mode = "pipeline" /\ pc = "post"
    /\ Len(ARCHIVES) # 0
    /\ fs' = IF Exists(fs, OutputDir) THEN fs ELSE Put(fs, Norm(OutputDir), Directory)
    /\ pc' = "ingest"
    /\ UNCHANGED <<inputs, ci, pi, vi, ARCHIVES, ai, exit_status, resolved, walked, ingested>>

\* len of all the lists of ARCHIVES together
RECURSIVE CountArchives(_)
CountArchives(A) == IF A = <<>> THEN 0 ELSE Len(Head(A).v) + CountArchives(Tail(A))

AtArchive == mode = "pipeline" /\ pc = "ingest" /\ ai < CountArchives(ARCHIVES)

\* Which branch of lines 257 and 272 an archive takes.
ArchiveKind(archive) ==
    IF IsTar(archive) THEN "tar" ELSE IF IsZip(archive) THEN "zip" ELSE "other"

IngestRecord(cur, tag, kind, layout, outcome) ==
    [archive |-> cur.archive, platform |-> cur.platform,
     tag |-> tag, kind |-> kind, layout |-> layout, outcome |-> outcome,
     dest |-> FlattenDest(Join(OutputDir, cur.platform), tag),
     before |-> DOMAIN fs]

\* tarfile.open / zipfile.ZipFile raises: the file is missing, or it is not
\* an archive of that kind.  The exception leaves post_action.
OpenRaises(cur, tag, kind) ==
    /\ kind # "other"
    /\ ingested' = Append(ingested, IngestRecord(cur, tag, kind, "none", "raised"))
    /\ Exit(1)
    /\ UNCHANGED <<ai, fs>>

\* Lines 258-270 or 273-285 for an archive that opens and holds `layout`:
\* extract, fix the permissions, flatten.  The exception of copytree leaves
\* post_action after the extraction.
Unpack(cur, tag, kind, layout) ==
    LET names     == IF kind = "tar" THEN TarNames(layout) ELSE ZipNames(layout)
        topdir    == CommonPrefix(names)
        extracted == ExtractAll(fs, layout.members, kind = "tar")
        fixed     == fix_permissions(extracted, topdir)
        flatdir   == Join(OutputDir, cur.platform)
    IN  IF CopytreeRaises(fixed, topdir)
        THEN /\ fs' = fixed
             /\ ingested' = Append(ingested,
                                   IngestRecord(cur, tag, kind, layout.id, "raised"))
             /\ Exit(1)
             /\ ai' = ai
        ELSE /\ fs' = flatten_tree(fixed, topdir, flatdir, tag)
             /\ ingested' = Append(ingested,
                                   IngestRecord(cur, tag, kind, layout.id, "ok"))
             /\ ai' = ai + 1
             /\ UNCHANGED <<pc, exit_status>>

Extracts(cur, tag, kind) ==
    /\ kind # "other"
    /\ IsFile(fs, cur.archive)
    /\ \E layout \in Layouts : Unpack(cur, tag, kind, layout)

\* neither pattern matches: the archive is passed over
PassOver(cur, tag, kind) ==
    /\ kind = "other"
    /\ ingested' = Append(ingested, IngestRecord(cur, tag, kind, "none", "skipped"))
    /\ ai' = ai + 1
    /\ UNCHANGED <<pc, fs, exit_status>>

\* One iteration of the loops of lines 249-285.
IngestArchive ==
    /\ AtArchive
    /\ LET cur  == PendingArchives(ARCHIVES)[ai + 1]
           tag  == BinTag(cur.archive)
           kind == ArchiveKind(cur.archive)
       IN  \/ OpenRaises(cur, tag, kind)
           \/ Extracts(cur, tag, kind)
           \/ PassOver(cur, tag, kind)
    /\ UNCHANGED <<inputs, ci, pi, vi, ARCHIVES, resolved, walked>>

\* lines 287-292 and main's sys.exit(0)
PostEnd ==
    /\ mode = "pipeline" /\ pc = "ingest" /\ ai = CountArchives(ARCHIVES)
    /\ Exit(0)
    /\ UNCHANGED <<inputs, ci, pi, vi, ARCHIVES, ai, fs, resolved, walked, ingested>>

Post == PostNothing \/ PostBegin \/ IngestArchive \/ PostEnd

Next == LoadManifest \/ LoadManifestFails \/ Walk \/ Post

Spec == Init /\ [][Next]_vars

(***************************************************************************)
(* The resolver alone: parse_artifact called again and again for one       *)
(* selector, as fetch_action calls it (lines 210-211, then 228 or 237),    *)
(* with either value of retrieve.  The selector is held in the three       *)
(* filter variables.                                                       *)
(***************************************************************************)
ResolverManifests == {JDict(<<EntryReleaseDate, EntryCudnn>>)}

InitResolver ==
    /\ mode = "resolver"
    /\ manifest \in ResolverManifests
    /\ \E t \in Artifacts(manifest) :
           /\ component_filter = t[1]
           /\ platform_filter = t[2]
           /\ cuda_filter = t[3]
    /\ fs \in InitialFileSystems(manifest, MaxCached)
    /\ InitCommon

ResolverCall ==
    /\ mode = "resolver"
    /\ Len(resolved) < MaxCalls
    /\ LET at == Locate(fs, Parent, manifest, component_filter, platform_filter,
                        cuda_filter)
       IN  \E retrieve \in BOOLEAN, r \in Responses :
              LET out == parse_artifact(fs, SetDefault(ARCHIVES, platform_filter),
                                        at, retrieve, r)
              IN  /\ fs' = out.fs
                  /\ ARCHIVES' = out.ARCHIVES
                  /\ resolved' = Append(resolved, out.rec)
    /\ UNCHANGED <<inputs, pc, ci, pi, vi, ai, exit_status, walked, ingested>>

NextResolver == ResolverCall

SpecResolver == InitResolver /\ [][NextResolver]_vars

(***************************************************************************)
(* Vocabulary of the properties.                                           *)
(***************************************************************************)
\* fetch_action has returned.
WalkFinished == mode = "pipeline" /\ pc # "load" /\ ci > Len(manifest.items)

\* The indices of the calls of parse_artifact for one platform entry.
CallsFor(component, platform) ==
    {i \in 1..Len(resolved) :
        resolved[i].component = component /\ resolved[i].platform = platform}

\* The archive records in the order the walk appended them.
Appended(x) == x.appended
Collected ==
    LET calls == SelectSeq(resolved, Appended)
    IN  [i \in 1..Len(calls) |-> [platform |-> calls[i].platform, archive |-> calls[i].path]]

\* The archives post_action has taken up, in that order.
Taken == [i \in 1..Len(ingested) |->
            [platform |-> ingested[i].platform, archive |-> ingested[i].archive]]

IsPrefix(a, b) == Len(a) <= Len(b) /\ \A i \in 1..Len(a) : a[i] = b[i]

\* The keys of a component entry that name platforms: dict-valued, and not
\* the reserved variant sibling data.
PlatformKeys(entry) ==
    {k \in KeySet(entry) : Get(entry, k).t = "dict" /\ ~Contains(k, "variant")}

\* The elements of a sequence.
Range(q) == {q[i] : i \in 1..Len(q)}

\* A call of parse_artifact found or fetched its artifact: the fetch, if one
\* was made, raised nothing, and otherwise one of the four paths of the elif
\* chain existed.
RecordYielded(x) ==
    IF x.fetched THEN ~x.raised
    ELSE x.pre.filename \/ x.pre.full_path \/ x.pre.parent_join \/ x.pre.pwd_join

\* The paths of the records the walk appended for one platform key.
CollectedFor(platform) ==
    LET OfPlatform(r) == r.platform = platform
        recs == SelectSeq(Collected, OfPlatform)
    IN  [i \in 1..Len(recs) |-> recs[i].archive]

(***************************************************************************)
(* C1.  Whenever parse_artifact is called with retrieve true and the file  *)
(* exists in one of the four candidate locations (the local filename in    *)
(* the working directory, the relative_path, parent + filename, or the     *)
(* component/platform directory joined with the filename), fetch_file is   *)
(* not invoked and a record of the existing file is appended.              *)
(***************************************************************************)
C1_CachedArtifactIsNeverFetched ==
    \A i \in 1..Len(resolved) :
        LET x == resolved[i]
        IN  (/\ x.retrieve
             /\ x.pre.filename \/ x.pre.rel \/ x.pre.parent_cat \/ x.pre.pwd_join)
            => (~x.fetched /\ x.appended)

(***************************************************************************)
(* C2.  When a fetch gets a non-200 response, no file is written, no       *)
(* exception leaves the fetcher, no archive record is appended for the     *)
(* artifact, and the walk goes on.                                         *)
(***************************************************************************)
C2_FailedFetchLeavesNoRecord ==
    \A i \in 1..Len(resolved) :
        LET x == resolved[i]
        IN  (x.fetched /\ x.status # HTTP_OK /\ x.status # 0)
            => (/\ ~x.wrote
                /\ ~x.raised
                /\ ~x.appended
                /\ (i = Len(resolved)) => (pc # "exited" \/ WalkFinished))

(***************************************************************************)
(* C3.  Once the manifest is loaded and the walk is done, the failure to   *)
(* extract one archive does not end the run: every collected archive is    *)
(* taken up and the exit status is zero.                                   *)
(***************************************************************************)
C3_ExtractionFailureIsAbsorbed ==
    (pc = "exited" /\ WalkFinished)
    => (exit_status = 0 /\ Len(ingested) = CountArchives(ARCHIVES))

\* The calls of parse_artifact for one platform entry, in call order.
CallSeqFor(component, platform) ==
    LET Here(x) == x.component = component /\ x.platform = platform
    IN  SelectSeq(resolved, Here)

\* The variant keys of a platform entry that --variant lets through.
SurvivingVariants(entry) ==
    LET Passes(v) == cuda_filter = None \/ v = cuda_filter
    IN  SelectSeq(Keys(entry), Passes)

\* The platform keys that the filter P lets through.
Passing == {platform_filter, "source"}

(***************************************************************************)
(* C4.  With the platform filter P, parse_artifact is called for a         *)
(* platform key K of a walked component if and only if K is P or "source"  *)
(* (and, for a variant-nested entry, some variant passes --variant).       *)
(* Every such call that found or fetched its artifact appended a record    *)
(* under K; every other platform key has no record: its list in ARCHIVES   *)
(* is empty.                                                               *)
(***************************************************************************)
C4_PlatformFilterPassesSource ==
    /\ \A i \in 1..Len(resolved) :
          /\ resolved[i].platform \in Passing
          /\ resolved[i].appended <=> RecordYielded(resolved[i])
    /\ \A j \in 1..Len(ARCHIVES) :
          IF ARCHIVES[j].k \in Passing
          THEN ARCHIVES[j].v = CollectedFor(ARCHIVES[j].k)
          ELSE ARCHIVES[j].v = <<>>
    /\ WalkFinished =>
          \A c \in Range(walked) :
              \A K \in PlatformKeys(Get(manifest, c)) :
                  LET e == Get(Get(manifest, c), K)
                  IN  (CallsFor(c, K) # {})
                      <=> (/\ K \in Passing
                           /\ \/ In("relative_path", e)
                              \/ SurvivingVariants(e) # <<>>)

\* A component offering P, source and a third platform was walked: there are
\* records for P and for source, and the third key has none.
C4_Witness ==
    /\ WalkFinished
    /\ platform_filter = "linux-x86_64"
    /\ \E i, j \in 1..Len(resolved) :
          /\ resolved[i].component = "cuda_cudart" /\ resolved[j].component = "cuda_cudart"
          /\ resolved[i].platform = platform_filter /\ resolved[i].appended
          /\ resolved[j].platform = "source" /\ resolved[j].appended
    /\ HasKey(ARCHIVES, "windows-x86_64")
    /\ ArchivesOf(ARCHIVES, "windows-x86_64") = <<>>
    /\ ArchivesOf(ARCHIVES, "source") # <<>>
    /\ ArchivesOf(ARCHIVES, platform_filter) # <<>>

(***************************************************************************)
(* C5.  For a variant-nested platform entry that passes the platform       *)
(* filter, the walk calls parse_artifact once for each variant key that    *)
(* passes --variant (all keys without the filter, the equal key with it),  *)
(* in the order of the keys and for no other; the calls that found or      *)
(* fetched their artifact appended one record each, and the records of     *)
(* different variants differ.                                              *)
(***************************************************************************)
C5_VariantFanOut ==
    WalkFinished =>
        \A c \in Range(walked) :
            \A K \in PlatformKeys(Get(manifest, c)) \cap Passing :
                LET e     == Get(Get(manifest, c), K)
                    calls == CallSeqFor(c, K)
                    want  == SurvivingVariants(e)
                IN  ~In("relative_path", e) =>
                        /\ Len(calls) = Len(want)
                        /\ \A i \in 1..Len(calls) :
                              /\ calls[i].variant = want[i]
                              /\ calls[i].appended <=> RecordYielded(calls[i])
                              /\ calls[i].appended => calls[i].path # None
                        /\ \A i, j \in 1..Len(calls) :
                              (i # j /\ calls[i].appended /\ calls[j].appended)
                              => calls[i].path # calls[j].path

\* Two variants, no --variant: two different records under the platform.
C5_Witness ==
    /\ WalkFinished
    /\ cuda_filter = None
    /\ LET calls == CallSeqFor("cudnn", "linux-x86_64")
       IN  /\ Len(calls) = 2
           /\ calls[1].appended /\ calls[2].appended
           /\ calls[1].path # calls[2].path
           /\ Len(ArchivesOf(ARCHIVES, "linux-x86_64")) >= 2

\* The collected records grouped by platform: the platforms in the order in
\* which ARCHIVES acquired its keys, the records of one platform in the order
\* the walk collected them.
RECURSIVE GroupedFrom(_)
GroupedFrom(j) ==
    IF j > Len(ARCHIVES) THEN <<>>
    ELSE LET paths == CollectedFor(ARCHIVES[j].k)
         IN  [i \in 1..Len(paths) |-> [platform |-> ARCHIVES[j].k, archive |-> paths[i]]]
             \o GroupedFrom(j + 1)

CollectedByPlatform == GroupedFrom(1)

(***************************************************************************)
(* C6 as stated.  post_action takes up archives only after fetch_action    *)
(* has returned, and takes them up in exactly the order in which the walk  *)
(* collected them.                                                         *)
(***************************************************************************)
C6_IngestionInCollectionOrder ==
    /\ ingested # <<>> => WalkFinished
    /\ IsPrefix(Taken, Collected)

(***************************************************************************)
(* C6 amended.  post_action takes up archives only after fetch_action has  *)
(* returned, and takes them up grouped by platform: platform after         *)
(* platform in the order in which ARCHIVES acquired its keys, and within   *)
(* one platform in the order in which the walk collected them.  Each list  *)
(* of ARCHIVES is the collection order of its platform.                    *)
(***************************************************************************)
C6_IngestionGroupedByPlatform ==
    /\ ingested # <<>> => WalkFinished
    /\ \A j \in 1..Len(ARCHIVES) : ARCHIVES[j].v = CollectedFor(ARCHIVES[j].k)
    /\ IsPrefix(Taken, CollectedByPlatform)
    /\ pc = "exited" /\ exit_status = 0 => Taken = CollectedByPlatform

\* Two archives were taken up and the second is not the second collected.
C6_Witness ==
    /\ Len(Taken) >= 2
    /\ Len(Collected) >= 3
    /\ Taken[1] = Collected[1]
    /\ Taken[2] # Collected[2]
    /\ ingested[1].outcome = "ok"

(***************************************************************************)
(* C7.  The tag of every archive taken up is derived from the file name    *)
(* of its recorded path alone (segment 3 of the split on "-", then         *)
(* segment 1 of the split on "_", absent when either is missing), and the  *)
(* flatten destination is outputDir/platform, plus the tag when there is   *)
(* one.                                                                    *)
(***************************************************************************)
C7_TagFromFilenameAlone ==
    \A i \in 1..Len(ingested) :
        LET x    == ingested[i]
            name == Split(Basename(x.archive), "-")
            sub  == IF Len(name) >= 4 THEN Split(name[4], "_") ELSE <<>>
            tag  == IF Len(sub) >= 2 THEN sub[2] ELSE None
        IN  /\ x.tag = tag
            /\ x.dest = IF tag = None THEN Join(OutputDir, x.platform)
                        ELSE Join(Join(OutputDir, x.platform), tag)

(***************************************************************************)
(* C8.  When a call of parse_artifact fetched its artifact with status     *)
(* 200, the next call for the same component, platform and variant does    *)
(* not fetch: it finds the file under its local name in the working        *)
(* directory and appends that name.                                        *)
(***************************************************************************)
C8_SecondResolutionFindsTheFile ==
    \A i \in 1..Len(resolved) - 1 :
        LET x == resolved[i]
            y == resolved[i + 1]
        IN  (x.fetched /\ ~x.raised /\ x.status = HTTP_OK)
            => /\ x.wrote
               /\ y.component = x.component /\ y.platform = x.platform
               /\ y.variant = x.variant
               /\ ~y.fetched
               /\ y.pre.filename
               /\ y.appended
               /\ y.path = y.filename

\* A successful fetch followed by a call that may fetch and does not.
C8_Witness ==
    /\ Len(resolved) >= 2
    /\ resolved[1].fetched /\ resolved[1].status = HTTP_OK /\ resolved[1].wrote
    /\ resolved[2].retrieve
    /\ ~resolved[2].fetched
    /\ resolved[2].path = resolved[2].filename

\* The archive contents that an ingestion record names.
LayoutOf(id) == CHOOSE l \in Layouts : l.id = id

\* The first component of a member name.
FirstPart(name) == Split(name, "/")[1]

\* The directory all members of an archive lie in, "" when they share none.
SharedTop(layout) ==
    LET m   == layout.members
        top == FirstPart(m[1].name)
    IN  IF /\ \A i \in 1..Len(m) : FirstPart(m[i].name) = top
           /\ \E i \in 1..Len(m) : m[i].name = top /\ m[i].kind = "dir"
        THEN top ELSE ""

\* Where a member belongs below dest: its path relative to the shared top
\* directory, its own name when there is none.
PlaceOf(dest, top, name) ==
    IF top = "" THEN Norm(Join(dest, name))
    ELSE IF name = top THEN Norm(dest)
    ELSE Norm(Join(dest, SubSeq(name, Len(top) + 2, Len(name))))

(***************************************************************************)
(* C9.  After an archive has been opened and ingested, whatever its        *)
(* members (one top directory, two directories that share only part of a   *)
(* name, or no common prefix at all): nothing was raised, every member is  *)
(* below outputDir/platform[/tag] at its relative path, every regular      *)
(* file among them is writable, nothing else is new in the file system     *)
(* (the staging tree is gone), and the archive file is still there.        *)
(***************************************************************************)
C9_IngestionRoundTrip ==
    ingested # <<>> =>
        LET x == ingested[Len(ingested)]
        IN  x.layout # "none" =>
                LET layout == LayoutOf(x.layout)
                    top    == SharedTop(layout)
                    m      == layout.members
                    want   == {PlaceOf(x.dest, top, m[i].name) : i \in 1..Len(m)}
                IN  /\ x.outcome = "ok"
                    /\ \A i \in 1..Len(m) :
                          LET q == PlaceOf(x.dest, top, m[i].name)
                          IN  /\ q \in DOMAIN fs
                              /\ fs[q].kind = m[i].kind
                              /\ m[i].kind = "file" => fs[q].w
                    /\ \A q \in DOMAIN fs \ x.before :
                          q \in want \/ StartsWith(Norm(x.dest), q)
                    /\ IsFile(fs, x.archive)

\* The components fetch_action has to walk: the keys of the manifest, in
\* manifest order, whose entry carries "name" and which --component admits.
ExpectedWalk ==
    LET Wanted(c) ==
            /\ In("name", Get(manifest, c))
            /\ component_filter = None \/ c = component_filter
    IN  SelectSeq(Keys(manifest), Wanted)

(***************************************************************************)
(* C10.  The walk announces and resolves only components whose entry       *)
(* carries "name" and, when --component is given, only the component of    *)
(* exactly that key; without --component it walks every entry carrying     *)
(* "name", in manifest order.  Every archive record comes from a call for  *)
(* such a component: an entry without "name" never produces one.           *)
(***************************************************************************)
C10_OnlyMarkedAndSelectedComponents ==
    /\ IsPrefix(walked, ExpectedWalk)
    /\ WalkFinished => walked = ExpectedWalk
    /\ \A i \in 1..Len(resolved) :
          LET c == resolved[i].component
          IN  /\ c \in Range(walked)
              /\ In("name", Get(manifest, c))
              /\ component_filter = None \/ c = component_filter
    /\ CountArchives(ARCHIVES) = Len(Collected)

\* A walk without --component over a manifest with an entry lacking "name":
\* the marked entries were walked and gave records, the other was not.
C10_Witness ==
    /\ WalkFinished
    /\ component_filter = None
    /\ "legacy" \in KeySet(manifest)
    /\ "legacy" \notin Range(walked)
    /\ Len(walked) >= 1
    /\ Collected # <<>>
    /\ \A i \in 1..Len(resolved) : resolved[i].component # "legacy"

\* The four candidate locations of a call in their stated order: the local
\* file name in the working directory, the relative_path (as a path of its
\* own, or behind parent as line 167 tests it), parent + file name, and the
\* component/platform directory joined with the file name; each with the
\* answer os.path.exists gave before the call and the paths that name it.
CandidateLocations(x) ==
    LET rel == RelativePath(manifest, x.component, x.platform, x.variant)
    IN  << [paths  |-> {Norm(x.filename)},
            exists |-> x.pre.filename],
           [paths  |-> {Norm(rel), Norm(Parent \o rel)},
            exists |-> x.pre.rel \/ x.pre.full_path],
           [paths  |-> {Norm(Parent \o x.filename)},
            exists |-> x.pre.parent_cat],
           [paths  |-> {Norm(Join(Pwd(x.component, x.platform), x.filename))},
            exists |-> x.pre.pwd_join] >>

\* The number of records the calls so far have appended.
AppendedCount == Len(SelectSeq(resolved, Appended))

(***************************************************************************)
(* C11.  Every call of parse_artifact looks at the four candidate          *)
(* locations in the fixed order.  When the artifact exists in at least one *)
(* of them, nothing is fetched, exactly one record is appended and it      *)
(* names the earliest existing location; when it exists in none, a fetch   *)
(* happens if and only if retrieve is true, and without retrieve nothing   *)
(* is appended.  ARCHIVES holds one record per appending call.             *)
(***************************************************************************)
C11_EarliestCandidateWins ==
    /\ CountArchives(ARCHIVES) = AppendedCount
    /\ \A i \in 1..Len(resolved) :
          LET x     == resolved[i]
              loc   == CandidateLocations(x)
              found == {k \in 1..4 : loc[k].exists}
          IN  IF found # {}
              THEN LET first == CHOOSE k \in found : \A j \in found : k <= j
                   IN  /\ ~x.fetched
                       /\ x.appended
                       /\ x.path # None
                       /\ Norm(x.path) \in loc[first].paths
              ELSE /\ x.fetched <=> x.retrieve
                   /\ ~x.retrieve => ~x.appended

(***************************************************************************)
(* C12.  --variant has no effect on flat platform entries: for every       *)
(* walked component and every platform key that passes the platform        *)
(* filter and whose entry holds relative_path directly, the walk calls     *)
(* parse_artifact exactly once, without a variant, whether --variant is    *)
(* set or not, and the call that found or fetched the artifact appended    *)
(* its record.  Calls without a variant are made for flat entries only.    *)
(***************************************************************************)
C12_VariantFilterIgnoredForFlat ==
    /\ \A i \in 1..Len(resolved) :
          LET x == resolved[i]
          IN  (x.variant = None)
              <=> In("relative_path", Get(Get(manifest, x.component), x.platform))
    /\ WalkFinished =>
          \A c \in Range(walked) :
              \A K \in PlatformKeys(Get(manifest, c)) \cap Passing :
                  LET calls == CallSeqFor(c, K)
                  IN  In("relative_path", Get(Get(manifest, c), K)) =>
                          /\ Len(calls) = 1
                          /\ calls[1].variant = None
                          /\ calls[1].retrieve
                          /\ calls[1].appended <=> RecordYielded(calls[1])

\* A walk with --variant set that resolved and collected the flat artifacts
\* of the matching platform and of source.
C12_Witness ==
    /\ WalkFinished
    /\ cuda_filter = "cuda12"
    /\ LET here == CallSeqFor("cuda_cudart", platform_filter)
           src  == CallSeqFor("cuda_cudart", "source")
       IN  /\ Len(here) = 1 /\ here[1].variant = None /\ here[1].appended
           /\ Len(src) = 1 /\ src[1].variant = None /\ src[1].appended

====
